---- MODULE Spec2Model ----
(***************************************************************************)
(* State-machine model of examples/hybrid/deuteron_h2_vqe.cpp: the three   *)
(* quantum kernels, the Hamiltonian, and main() with its three VQE runs,    *)
(* its three qcor_expect checks and the final query of the third solver.    *)
(*                                                                         *)
(* Reals are fixed point: energies and Hamiltonian coefficients are         *)
(* multiples of 1e-5 (-174886 is -1.74886), angles are multiples of 1e-2    *)
(* (55 is 0.55).                                                            *)
(***************************************************************************)
EXTENDS Integers, Sequences, FiniteSets, Bags, TLC

VARIABLES
    pc,                       \* the statement of main that executes next
    H,                        \* the Hamiltonian built at lines 47-49 ({} before)
    solver,                   \* per VQE object: constructed?, kernel, observable, options
    history,                  \* per VQE object: the bag of (energy, params) it observed
    running,                  \* the VQE objects whose execute is in progress
    used,                     \* per VQE object: the optimizer and initial parameters of its run
    result,                   \* the structured bindings (energy, params) of each execute
    optimizer,                \* the local `optimizer` of line 71
    all_params,               \* the local of line 83
    all_energies_and_params,  \* the local of line 84
    queried,                  \* which of the two accessors have been called
    out,                      \* what was written to std::cout
    oob,                      \* an element of a vector was read out of bounds
    events,                   \* the library calls and statements of main, in order
    evaluated                 \* every circuit run on the backend: solver, params, circuit, energy

vars == <<pc, H, solver, history, running, used, result, optimizer, all_params,
          all_energies_and_params, queried, out, oob, events, evaluated>>

----------------------------------------------------------------------------
(* Bounds of the model *)

\* evaluations the default optimizer makes at most in one run
MaxEvalDefault == 2

\* the angles an optimizer may try, beside the initial ones (0.0 and 0.55)
ParamValues == {0, 55}

\* the energies the backend may report: the reference value -1.74886 (within
\* the tolerance) and <H> at angle 0 on an ideal backend, -0.43629 (outside it)
EnergyValues == {-174886, -43629}

----------------------------------------------------------------------------
(* Program constants *)

\* the reference energy of lines 59, 66, 79: std::abs(e + 1.74886)
Reference == -174886

\* the tolerance of lines 59, 66, 79: ... < 0.1
Tolerance == 10000

\* std::make_pair("nlopt-maxeval", 20)
NloptMaxEval == 20

\* the initial parameter of the third run, line 76
InitialOq == 55

\* the initial parameter of the first two runs, lines 57 and 64
InitialZero == 0

Solvers == {"vqe", "vqe_vec", "vqe_openqasm"}

----------------------------------------------------------------------------
(* The quantum kernels, as the statements of their bodies.  A statement is  *)
(* written in the syntax of one language (xasm: Gate(q[i], arg); openqasm:  *)
(* gate q[i], q[j];) or is a `using qcor::<language>;` switch.              *)

Stmt(syntax, op, qubits, arg) ==
    [syntax |-> syntax, op |-> op, qubits |-> qubits, arg |-> arg]

\* lines 17-21
ansatz ==
    [name  |-> "ansatz",
     param |-> [name |-> "x", type |-> "double"],
     body  |-> << Stmt("xasm", "X",  <<0>>,    ""),
                  Stmt("xasm", "Ry", <<1>>,    "x"),
                  Stmt("xasm", "CX", <<1, 0>>, "") >>]

\* lines 27-31; the exponent X(0) * Y(1) - Y(0) * X(1) of line 29 is the
\* operand of exp_i_theta
ansatz_vec ==
    [name  |-> "ansatz_vec",
     param |-> [name |-> "x", type |-> "vector"],
     body  |-> << Stmt("xasm", "X", <<0>>, ""),
                  Stmt("xasm", "exp_i_theta X0Y1 - Y0X1", <<0, 1>>, "x[0]") >>]

\* variant of lines 33-42 without the switch back to xasm at line 36
mixed_ansatz_without_xasm ==
    [name  |-> "xasm_open_qasm_mixed_ansatz",
     param |-> [name |-> "xx", type |-> "double"],
     body  |-> << Stmt("using",    "openqasm", <<>>, ""),
                  Stmt("openqasm", "x",  <<0>>,    ""),
                  Stmt("xasm",     "Ry", <<1>>,    "xx"),
                  Stmt("using",    "openqasm", <<>>, ""),
                  Stmt("openqasm", "cx", <<1, 0>>, "") >>]

\* lines 33-42
xasm_open_qasm_mixed_ansatz ==
    [name  |-> "xasm_open_qasm_mixed_ansatz",
     param |-> [name |-> "xx", type |-> "double"],
     body  |-> << Stmt("using",    "openqasm", <<>>, ""),
                  Stmt("openqasm", "x",  <<0>>,    ""),
                  Stmt("using",    "xasm",     <<>>, ""),
                  Stmt("xasm",     "Ry", <<1>>,    "xx"),
                  Stmt("using",    "openqasm", <<>>, ""),
                  Stmt("openqasm", "cx", <<1, 0>>, "") >>]

NoKernel == [name |-> "", param |-> [name |-> "", type |-> ""], body |-> <<>>]

\* A gate of a lowered circuit.  For CX the first qubit is the control.
Gate(g, qubits, angle) == [gate |-> g, qubits |-> qubits, angle |-> angle]

ParseError == Gate("parse error", <<>>, <<>>)

\* The value of a statement's argument, given the kernel's parameter and the
\* parameter vector the solver evaluates: a double parameter is bound to
\* element 0 of the vector, a vector parameter to the vector itself.
ArgValue(param, arg, params) ==
    IF arg = ""
    THEN <<>>
    ELSE IF param.type = "double" /\ arg = param.name /\ Len(params) >= 1
    THEN <<params[1]>>
    ELSE IF param.type = "vector" /\ arg = param.name \o "[0]" /\ Len(params) >= 1
    THEN <<params[1]>>
    ELSE <<-1>>

\* openqasm's gate names are lower case; xasm's are the instruction names
GateName(syntax, op) ==
    IF syntax = "openqasm"
    THEN (IF op = "x" THEN "X" ELSE IF op = "cx" THEN "CX" ELSE "parse error")
    ELSE op

\* The circuit a kernel body lowers to: statements are read in the language
\* in force (xasm at the start), a `using` statement changes it.
RECURSIVE Lower(_, _, _, _)
Lower(body, lang, param, params) ==
    IF body = <<>>
    THEN <<>>
    ELSE LET s == Head(body) IN
         IF s.syntax = "using"
         THEN Lower(Tail(body), s.op, param, params)
         ELSE IF s.syntax # lang
         THEN <<ParseError>> \o Lower(Tail(body), lang, param, params)
         ELSE <<Gate(GateName(s.syntax, s.op), s.qubits,
                     ArgValue(param, s.arg, params))>>
              \o Lower(Tail(body), lang, param, params)

\* the circuit of kernel k at the parameter vector params
Circuit(k, params) == Lower(k.body, "xasm", k.param, params)

----------------------------------------------------------------------------
(* The Hamiltonian of lines 47-49 as its terms (coefficient, Pauli string) *)

Hamiltonian ==
    { <<590700, "I">>, <<-214330, "X0 X1">>, <<-214330, "Y0 Y1">>,
      <<21829, "Z0">>, <<-612500, "Z1">> }

----------------------------------------------------------------------------
(* The library behind qcor_hybrid.hpp: optimizers, the VQE object, and     *)
(* qcor_expect.                                                             *)

Abs(x) == IF x < 0 THEN -x ELSE x

\* std::abs(e + 1.74886) < 0.1
InTol(e) == Abs(e - Reference) < Tolerance

NoOptimizer == [name |-> "", algorithm |-> "", maxeval |-> 0]

\* the optimizer execute(initial) uses when none is given
DefaultOptimizer ==
    [name |-> "default", algorithm |-> "default", maxeval |-> MaxEvalDefault]

\* createOptimizer(name, {nlopt-optimizer, nlopt-maxeval})
createOptimizer(name, algorithm, maxeval) ==
    [name |-> name, algorithm |-> algorithm, maxeval |-> maxeval]

NoSolver == [constructed |-> FALSE, kernel |-> NoKernel, observable |-> {},
             options |-> {}]

\* VQE(kernel, observable, options)
VQE(kernel, observable, options) ==
    [constructed |-> TRUE, kernel |-> kernel, observable |-> observable,
     options |-> options]

NotRun == [optimizer |-> NoOptimizer, initial |-> <<>>]

\* the structured binding of an execute that has not returned
NoResult == <<>>

\* the parameter vectors of n elements an optimizer may try
RECURSIVE Grid(_)
Grid(n) ==
    IF n = 0 THEN {<<>>}
    ELSE {Append(g, v) : g \in Grid(n - 1), v \in ParamValues}

Observations(s) == BagToSet(history[s])

\* get_unique_parameters(): the distinct parameter vectors observed
get_unique_parameters(s) == {o[2] : o \in Observations(s)}

\* get_unique_energies(): the distinct (energy, parameters) observed
get_unique_energies(s) == Observations(s)

\* the minimum of the observed energies, with parameters it was observed at
Optimum(s) ==
    {o \in Observations(s) : \A o2 \in Observations(s) : o[1] <= o2[1]}

\* main's statement after the call of s.execute, and the label of main
\* while it is inside that call
CallLabel(s) ==
    CASE s = "vqe" -> "L57_call"
      [] s = "vqe_vec" -> "L64_call"
      [] s = "vqe_openqasm" -> "L76_call"

AfterCall(s) ==
    CASE s = "vqe" -> "L58"
      [] s = "vqe_vec" -> "L65"
      [] s = "vqe_openqasm" -> "L78"

Log(kind, subject) == events' = Append(events, <<kind, subject>>)

\* One objective evaluation of the run of s: the optimizer picks a parameter
\* vector (the initial one first), the kernel's circuit runs on the backend
\* and the energy <H>(params) is observed and kept by the VQE object.  The
\* energy is the expectation value of H in the state the circuit prepares:
\* the backend reports the same energy whenever it runs the same circuit.
Evaluate(s) ==
    /\ s \in running
    /\ BagCardinality(history[s]) < used[s].optimizer.maxeval
    /\ \E params \in Grid(Len(used[s].initial)), e \in EnergyValues :
          /\ history[s] = EmptyBag => params = used[s].initial
          /\ \A t \in evaluated :
                t.circuit = Circuit(solver[s].kernel, params) => t.energy = e
          /\ history' = [history EXCEPT ![s] = @ (+) SetToBag({<<e, params>>})]
          /\ evaluated' = evaluated \cup
                {[solver |-> s, params |-> params, energy |-> e,
                  circuit |-> Circuit(solver[s].kernel, params)]}
          /\ oob' = (oob \/ Len(params) = 0)
    /\ UNCHANGED <<pc, H, solver, running, used, result, optimizer, all_params,
                   all_energies_and_params, queried, out, events>>

\* variant of ExecuteReturn that pairs the least energy with the initial
\* parameters instead of the parameters it was observed at
ExecuteReturn_initial(s) ==
    /\ s \in running
    /\ history[s] # EmptyBag
    /\ \E o \in Optimum(s) : result' = [result EXCEPT ![s] = <<o[1], used[s].initial>>]
    /\ running' = running \ {s}
    /\ pc' = IF pc = CallLabel(s) THEN AfterCall(s) ELSE pc
    /\ Log("return", s)
    /\ UNCHANGED <<H, solver, history, used, optimizer, all_params,
                   all_energies_and_params, queried, out, oob, evaluated>>

\* The optimizer of s stops: execute returns the optimum to its caller.
ExecuteReturn(s) ==
    /\ s \in running
    /\ history[s] # EmptyBag
    /\ \E o \in Optimum(s) : result' = [result EXCEPT ![s] = o]
    /\ running' = running \ {s}
    /\ pc' = IF pc = CallLabel(s) THEN AfterCall(s) ELSE pc
    /\ Log("return", s)
    /\ UNCHANGED <<H, solver, history, used, optimizer, all_params,
                   all_energies_and_params, queried, out, oob, evaluated>>

----------------------------------------------------------------------------
(* The statements of main *)

\* VQE s(kernel, H, options);
Construct(at, next, s, kernel, options) ==
    /\ pc = at
    /\ solver' = [solver EXCEPT ![s] = VQE(kernel, H, options)]
    /\ pc' = next
    /\ Log("construct", s)
    /\ UNCHANGED <<H, history, running, used, result, optimizer, all_params,
                   all_energies_and_params, queried, out, oob, evaluated>>

\* const auto [e, p] = s.execute(opt, initial);  main waits for the result
Execute(at, s, opt, initial) ==
    /\ pc = at
    /\ solver[s].constructed
    /\ s \notin running
    /\ running' = running \cup {s}
    /\ used' = [used EXCEPT ![s] = [optimizer |-> opt, initial |-> initial]]
    /\ pc' = CallLabel(s)
    /\ Log("execute", s)
    /\ UNCHANGED <<H, solver, history, result, optimizer, all_params,
                   all_energies_and_params, queried, out, oob, evaluated>>

\* variant of Execute through the async interface: the run starts and main
\* goes on to its next statement without waiting for the result
ExecuteAsync(at, next, s, opt, initial) ==
    /\ pc = at
    /\ solver[s].constructed
    /\ s \notin running
    /\ running' = running \cup {s}
    /\ used' = [used EXCEPT ![s] = [optimizer |-> opt, initial |-> initial]]
    /\ pc' = next
    /\ Log("execute", s)
    /\ UNCHANGED <<H, solver, history, result, optimizer, all_params,
                   all_energies_and_params, queried, out, oob, evaluated>>

\* std::cout << "<H>(" << p[0] << ") = " << e << "\n";
PrintResult(at, next, s) ==
    /\ pc = at
    /\ IF result[s] = NoResult \/ Len(result[s][2]) = 0
       THEN /\ oob' = TRUE
            /\ out' = Append(out, <<"<H>", {}>>)
       ELSE /\ oob' = oob
            /\ out' = Append(out, <<"<H>", {<<result[s][1], <<result[s][2][1]>>>>}>>)
    /\ pc' = next
    /\ Log("print", s)
    /\ UNCHANGED <<H, solver, history, running, used, result, optimizer,
                   all_params, all_energies_and_params, queried, evaluated>>

\* the energy bound by the structured binding of s.execute
Energy(s) == IF result[s] = NoResult THEN 0 ELSE result[s][1]

\* qcor_expect(cond); in the section of solver s
qcor_expect(at, next, s, cond) ==
    /\ pc = at
    /\ pc' = IF cond THEN next ELSE "aborted"
    /\ Log("qcor_expect", s)
    /\ UNCHANGED <<H, solver, history, running, used, result, optimizer,
                   all_params, all_energies_and_params, queried, out, oob,
                   evaluated>>

\* lines 47-49
BuildH ==
    /\ pc = "L47"
    /\ H' = Hamiltonian
    /\ pc' = "L53"
    /\ Log("H", "")
    /\ UNCHANGED <<solver, history, running, used, result, optimizer, all_params,
                   all_energies_and_params, queried, out, oob, evaluated>>

\* line 53
Construct_vqe == Construct("L53", "L57", "vqe", ansatz, {})

\* line 57
Execute_vqe == Execute("L57", "vqe", DefaultOptimizer, <<InitialZero>>)

\* line 58
Print_vqe == PrintResult("L58", "L59", "vqe")

\* variant of line 59 whose condition never fails
Expect_vqe_unchecked == qcor_expect("L59", "L63", "vqe", TRUE)

\* line 59
Expect_vqe == qcor_expect("L59", "L63", "vqe", InTol(Energy("vqe")))

\* line 63
Construct_vec == Construct("L63", "L64", "vqe_vec", ansatz_vec, {})

\* variant of line 64 that calls vqe.execute a second time
Execute_vec_again == Execute("L64", "vqe", DefaultOptimizer, <<InitialZero>>)

\* variant of line 64 that uses the async interface its comment announces
Execute_vec_async ==
    ExecuteAsync("L64", "L65", "vqe_vec", DefaultOptimizer, <<InitialZero>>)

\* variant of line 64 that passes an empty vector of initial parameters
Execute_vec_empty == Execute("L64", "vqe_vec", DefaultOptimizer, <<>>)

\* line 64
Execute_vec == Execute("L64", "vqe_vec", DefaultOptimizer, <<InitialZero>>)

\* line 65
Print_vec == PrintResult("L65", "L66", "vqe_vec")

\* line 66
Expect_vec == qcor_expect("L66", "L71", "vqe_vec", InTol(Energy("vqe_vec")))

\* lines 71-73
CreateOptimizer ==
    /\ pc = "L71"
    /\ optimizer' = createOptimizer("nlopt", "l-bfgs", NloptMaxEval)
    /\ pc' = "L74"
    /\ Log("createOptimizer", "")
    /\ UNCHANGED <<H, solver, history, running, used, result, all_params,
                   all_energies_and_params, queried, out, oob, evaluated>>

\* lines 74-75
Construct_oq ==
    Construct("L74", "L76", "vqe_openqasm", xasm_open_qasm_mixed_ansatz,
              {<<"gradient-strategy", "central">>})

\* variant of line 76 that does not pass the optimizer
Execute_oq_default ==
    Execute("L76", "vqe_openqasm", DefaultOptimizer, <<InitialOq>>)

\* line 76
Execute_oq == Execute("L76", "vqe_openqasm", optimizer, <<InitialOq>>)

\* line 78
Print_oq == PrintResult("L78", "L79", "vqe_openqasm")

\* line 79: the third check reads energy_vec
Expect_oq ==
    qcor_expect("L79", "L83", "vqe_openqasm", InTol(Energy("vqe_vec")))

\* variant of line 83 that queries vqe_vec
QueryParameters_vec ==
    /\ pc = "L83"
    /\ all_params' = get_unique_parameters("vqe_vec")
    /\ queried' = queried \cup {"get_unique_parameters"}
    /\ pc' = "L84"
    /\ Log("get_unique_parameters", "vqe_openqasm")
    /\ UNCHANGED <<H, solver, history, running, used, result, optimizer,
                   all_energies_and_params, out, oob, evaluated>>

\* line 83
QueryParameters ==
    /\ pc = "L83"
    /\ all_params' = get_unique_parameters("vqe_openqasm")
    /\ queried' = queried \cup {"get_unique_parameters"}
    /\ pc' = "L84"
    /\ Log("get_unique_parameters", "vqe_openqasm")
    /\ UNCHANGED <<H, solver, history, running, used, result, optimizer,
                   all_energies_and_params, out, oob, evaluated>>

\* line 84
QueryEnergies ==
    /\ pc = "L84"
    /\ all_energies_and_params' = get_unique_energies("vqe_openqasm")
    /\ queried' = queried \cup {"get_unique_energies"}
    /\ pc' = "L85"
    /\ Log("get_unique_energies", "vqe_openqasm")
    /\ UNCHANGED <<H, solver, history, running, used, result, optimizer,
                   all_params, out, oob, evaluated>>

\* lines 85-94
PrintAll ==
    /\ pc = "L85"
    /\ out' = Append(out, <<"All Energies and Parameters", all_energies_and_params>>)
    /\ pc' = "done"
    /\ Log("print_all", "")
    /\ UNCHANGED <<H, solver, history, running, used, result, optimizer,
                   all_params, all_energies_and_params, queried, oob, evaluated>>

----------------------------------------------------------------------------

Init ==
    /\ pc = "L47"
    /\ H = {}
    /\ solver = [s \in Solvers |-> NoSolver]
    /\ history = [s \in Solvers |-> EmptyBag]
    /\ running = {}
    /\ used = [s \in Solvers |-> NotRun]
    /\ result = [s \in Solvers |-> NoResult]
    /\ optimizer = NoOptimizer
    /\ all_params = {}
    /\ all_energies_and_params = {}
    /\ queried = {}
    /\ out = <<>>
    /\ oob = FALSE
    /\ events = <<>>
    /\ evaluated = {}

Next ==
    \/ BuildH
    \/ Construct_vqe
    \/ Execute_vqe
    \/ Print_vqe
    \/ Expect_vqe
    \/ Construct_vec
    \/ Execute_vec
    \/ Print_vec
    \/ Expect_vec
    \/ CreateOptimizer
    \/ Construct_oq
    \/ Execute_oq
    \/ Print_oq
    \/ Expect_oq
    \/ QueryParameters
    \/ QueryEnergies
    \/ PrintAll
    \/ \E s \in Solvers : Evaluate(s)
    \/ \E s \in Solvers : ExecuteReturn(s)

Spec == Init /\ [][Next]_vars

----------------------------------------------------------------------------
(* Properties *)

Order(s) == CASE s = "vqe" -> 1 [] s = "vqe_vec" -> 2 [] s = "vqe_openqasm" -> 3

Returned(s) == result[s] # NoResult

AfterThirdCheck == pc \in {"L83", "L84", "L85", "done"}

Ended == pc \in {"done", "aborted"}

\* the backend's record of the run of s
Run(s) == {t \in evaluated : t.solver = s}

\* the statements of a complete run of main, in program order
MainOrder ==
    << <<"H", "">>,
       <<"construct", "vqe">>, <<"execute", "vqe">>, <<"return", "vqe">>,
       <<"print", "vqe">>, <<"qcor_expect", "vqe">>,
       <<"construct", "vqe_vec">>, <<"execute", "vqe_vec">>,
       <<"return", "vqe_vec">>, <<"print", "vqe_vec">>,
       <<"qcor_expect", "vqe_vec">>,
       <<"createOptimizer", "">>,
       <<"construct", "vqe_openqasm">>, <<"execute", "vqe_openqasm">>,
       <<"return", "vqe_openqasm">>, <<"print", "vqe_openqasm">>,
       <<"qcor_expect", "vqe_openqasm">>,
       <<"get_unique_parameters", "vqe_openqasm">>,
       <<"get_unique_energies", "vqe_openqasm">>,
       <<"print_all", "">> >>

\* C2: in every run that gets past the third qcor_expect, all three returned
\* energies, energy_oq included, are within the tolerance of -1.74886.
C2_AllEnergiesChecked ==
    AfterThirdCheck => \A s \in Solvers : InTol(Energy(s))

\* the section of main whose qcor_expect stopped the program
HaltedIn(s) ==
    /\ pc = "aborted"
    /\ events # <<>>
    /\ events[Len(events)] = <<"qcor_expect", s>>

\* the condition of the qcor_expect main is about to execute
ExpectHolds ==
    CASE pc = "L59" -> InTol(Energy("vqe"))
      [] pc = "L66" -> InTol(Energy("vqe_vec"))
      [] pc = "L79" -> InTol(Energy("vqe_vec"))
      [] OTHER -> TRUE

\* C3: a failing qcor_expect halts main at that point: the step of a failing
\* check ends in the halted state, nothing changes once halted, and in the
\* halted state no later solver is constructed or executed, no later line is
\* printed and neither accessor has been called.
C3_FailedExpectHalts ==
    /\ [][ /\ ~ExpectHolds => pc' = "aborted"
           /\ pc # "aborted" ]_vars
    /\ [](\A s \in Solvers : HaltedIn(s) =>
            /\ Len(out) = Order(s)
            /\ queried = {}
            /\ all_params = {} /\ all_energies_and_params = {}
            /\ running = {}
            /\ \A s2 \in Solvers : Order(s2) > Order(s) =>
                  /\ ~solver[s2].constructed
                  /\ history[s2] = EmptyBag
                  /\ ~Returned(s2))
    /\ [](pc = "aborted" => \E s \in Solvers : HaltedIn(s))

C3_Witness == HaltedIn("vqe_vec") /\ Returned("vqe") /\ Returned("vqe_vec")

\* the labels of main in program order
Labels ==
    << "L47", "L53", "L57", "L57_call", "L58", "L59", "L63", "L64", "L64_call",
       "L65", "L66", "L71", "L74", "L76", "L76_call", "L78", "L79", "L83",
       "L84", "L85", "done" >>

\* what is left to do: the statements of main after pc, and the evaluations
\* the optimizer of a run in progress may still make
Remaining ==
    IF pc = "aborted"
    THEN 0
    ELSE LET at == CHOOSE i \in 1..Len(Labels) : Labels[i] = pc
             left == IF running = {} THEN 0
                     ELSE LET s == CHOOSE r \in running : TRUE
                          IN  used[s].optimizer.maxeval - BagCardinality(history[s])
         IN  100 * (Len(Labels) - at) + left

C6_LinearOrder ==
    /\ Len(events) <= Len(MainOrder)
    /\ events = SubSeq(MainOrder, 1, Len(events))

C6_Witness == pc = "done" /\ events = MainOrder

C8_OptimizerConfiguration ==
    /\ \A s \in {"vqe", "vqe_vec"} :
          /\ solver[s].constructed => solver[s].options = {}
          /\ used[s] # NotRun =>
                /\ used[s].optimizer = DefaultOptimizer
                /\ used[s].initial = <<0>>
    /\ solver["vqe_openqasm"].constructed =>
          solver["vqe_openqasm"].options = {<<"gradient-strategy", "central">>}
    /\ used["vqe_openqasm"] # NotRun =>
          /\ used["vqe_openqasm"].optimizer =
                [name |-> "nlopt", algorithm |-> "l-bfgs", maxeval |-> 20]
          /\ used["vqe_openqasm"].initial = <<55>>
    /\ BagCardinality(history["vqe_openqasm"]) <= 20
    /\ \A s \in Solvers : history[s] # EmptyBag =>
          \E t \in Run(s) : t.params = used[s].initial

C8_Witness ==
    /\ Returned("vqe_openqasm")
    /\ BagCardinality(history["vqe_openqasm"]) = 20

\* X on q[0], Ry(angle) on q[1], CX with control q[1] and target q[0]
DeuteronCircuit(angle) ==
    << Gate("X", <<0>>, <<>>),
       Gate("Ry", <<1>>, <<angle>>),
       Gate("CX", <<1, 0>>, <<>>) >>

\* C9: ansatz and xasm_open_qasm_mixed_ansatz are the same circuit: every
\* circuit the backend ran for vqe or vqe_openqasm is X q[0]; Ry(angle) q[1];
\* CX q[1], q[0] at the angle evaluated, so the two solvers ran the same
\* circuit wherever they evaluated the same angle.
C9_SameCircuit ==
    /\ \A t \in Run("vqe") \cup Run("vqe_openqasm") :
          /\ Len(t.params) = 1
          /\ t.circuit = DeuteronCircuit(t.params[1])
    /\ \A t \in Run("vqe"), u \in Run("vqe_openqasm") :
          t.params = u.params => t.circuit = u.circuit

C9_Witness ==
    \E t \in Run("vqe"), u \in Run("vqe_openqasm") :
        /\ t.params = u.params
        /\ t.circuit = u.circuit
        /\ t.params = <<55>>

\* C10: the parameter vector an execute returns is as long as the initial
\* parameters given (one element), so no read of element 0 is out of bounds.
C10_ParamsInBounds ==
    /\ ~oob
    /\ \A s \in Solvers : Returned(s) =>
          /\ Len(result[s][2]) = Len(used[s].initial)
          /\ Len(result[s][2]) = 1

C10_Witness ==
    /\ pc = "L79"
    /\ Len(out) = 3
    /\ \A s \in Solvers : Returned(s)

====
